---- MODULE Spec2Model ----
(***************************************************************************)
(* Model of perfkitbenchmarker/pkb.py: the per-benchmark stage pipeline    *)
(* (RunBenchmark and the Do*Phase functions), the run-stage retry /        *)
(* time-box loop (DoRunPhase), and the task wrapper that runs pipelines in *)
(* worker processes and propagates the shared abort event                  *)
(* (RunBenchmarkTask, _TEARDOWN_EVENT).                                    *)
(*                                                                         *)
(* Every call into a collaborator (benchmark spec, event bus, collector)   *)
(* is a call that returns or raises; which calls may raise for a given     *)
(* spec is part of the environment (variable faults).  The phase functions *)
(* touch no state shared between workers, so each is one atomic action;    *)
(* the actions that read or write the shared abort event are separate.     *)
(***************************************************************************)
EXTENDS Naturals, Integers, Sequences, FiniteSets, TLC

\* ---------------------------------------------------------------- bounds
NumSpecs == 2        \* benchmark specs in a parallel batch
MaxRetries == 1      \* largest value of --run_stage_retries explored
MaxStageTime == 1    \* largest value of --run_stage_time explored
MaxRuns == 3         \* BenchmarkRun invocations explored per spec

\* ------------------------------------------------------------- constants
STAGES == <<"provision", "prepare", "run", "cleanup", "teardown">>

StageSet == {STAGES[i] : i \in 1..Len(STAGES)}

NOT_STARTED == "NOT_STARTED"
FAILED == "FAILED"
SUCCEEDED == "SUCCEEDED"

ExcKinds == {"Exception", "KeyboardInterrupt"}

NoExc == [kind |-> "none", at |-> "none"]

\* Calls RunBenchmark makes into its collaborators, by the stage they belong
\* to ("none": checkpoints, notifications, collector calls).
StageOf(op) ==
  CASE op \in {"Construct", "Provision"} -> "provision"
    [] op \in {"Prepare", "BenchmarkPrepare", "StartBackgroundWorkload"} -> "prepare"
    [] op = "BenchmarkRun" -> "run"
    [] op \in {"StopBackgroundWorkload", "BenchmarkCleanup"} -> "cleanup"
    [] op = "Delete" -> "teardown"
    [] OTHER -> "none"

OpNames ==
  {"Construct", "Provision", "Prepare", "BenchmarkPrepare",
   "StartBackgroundWorkload", "BenchmarkRun", "StopBackgroundWorkload",
   "BenchmarkCleanup", "Delete", "Pickle", "benchmark_start", "before_phase",
   "after_phase", "samples_created", "benchmark_end", "AddSamples",
   "AddTimingSamples", "PublishSamples"}

StageRank(st) == CHOOSE i \in 1..Len(STAGES) : STAGES[i] = st

Min(a, b) == IF a < b THEN a ELSE b

VARIABLES
  FLAGS,                  \* run_stage, run_stage_retries, run_stage_time,
                          \* stop_after_benchmark_failure, run_processes,
                          \* publish_after_run, timing_measurements
  always_call_cleanup,    \* spec.always_call_cleanup
  any_static,             \* any(vm.is_static for vm in spec.vms)
  faults,                 \* per spec: the <<call, exception kind>> pairs the
                          \* environment may raise
  TEARDOWN_EVENT,         \* the shared multiprocessing.Event
  pc,                     \* per spec: position of its task
  status,                 \* spec.status
  exc,                    \* per spec: the exception in flight
  run_uri_suffixed,       \* per spec: config.flags['run_uri'] got the suffix
  collector,              \* per spec: samples of the task's SampleCollector
  published,              \* per spec: samples flushed by PublishSamples
  consecutive_failures,   \* DoRunPhase local
  run_number,             \* DoRunPhase local
  elapsed,                \* time.time() at the last reading minus the
                          \* reading DoRunPhase took on entry
  checkLog,               \* per spec: result of each deadline check
  trace,                  \* per spec: the collaborator calls made, in order,
                          \* each with its outcome
  abortSeen,              \* per spec: value of the abort event at each Delete
  aborting,               \* per spec: what abort.IsAborted() answered in the
                          \* finally clause of RunBenchmark
  result,                 \* per spec: what RunBenchmarkTask returned
  batch_samples,          \* collector.samples of RunBenchmarks
  batch_published,        \* samples flushed by the PublishSamples of RunBenchmarks
  exit_status             \* what RunBenchmarks returned (NoExit: not yet)

vars == <<FLAGS, always_call_cleanup, any_static, faults, TEARDOWN_EVENT, pc,
          status, exc, run_uri_suffixed, collector, published,
          consecutive_failures, run_number, elapsed, checkLog, trace,
          abortSeen, aborting, result, batch_samples, batch_published,
          exit_status>>

Specs == DOMAIN pc

\* The names of the calls made so far for spec s.
Calls(s) == {trace[s][i].op : i \in DOMAIN trace[s]}

IsRun(e) == e.op = "BenchmarkRun"

\* The BenchmarkRun invocations made so far for spec s, with their outcomes.
RunLog(s) == SelectSeq(trace[s], IsRun)

NoResult == [returned |-> FALSE, status |-> NOT_STARTED, samples |-> <<>>]

NoExit == -1

\* --------------------------------------------------- calls and exceptions
\* A call result: the calls made, and the exception that leaves (or NoExc).
Ok(op) == [tr |-> <<[op |-> op, out |-> "none"]>>, exc |-> NoExc]

Raise(op, k) ==
  [tr |-> <<[op |-> op, out |-> k]>>, exc |-> [kind |-> k, at |-> op]]

Skip == [tr |-> <<>>, exc |-> NoExc]

\* All outcomes of one call made on behalf of spec s.
Call(s, op) ==
  {Ok(op)} \cup {Raise(op, k) : k \in {k \in ExcKinds : <<op, k>> \in faults[s]}}

\* a; b  -- b runs only if a returned.
Then(a, b) ==
  IF a.exc = NoExc THEN [tr |-> a.tr \o b.tr, exc |-> b.exc] ELSE a

\* try: a  finally: b  -- an exception raised by b replaces the one of a.
Finally(a, b) ==
  [tr |-> a.tr \o b.tr, exc |-> IF b.exc # NoExc THEN b.exc ELSE a.exc]

ThenSet(A, B) == {Then(a, b) : a \in A, b \in B}

FinallySet(A, B) == {Finally(a, b) : a \in A, b \in B}

\* ------------------------------------------------------------------ Init
\* The calls that block long enough for an operator interrupt to land in.
Interruptible == {"Provision", "BenchmarkRun", "BenchmarkCleanup"}

AllFaults ==
  (OpNames \X {"Exception"}) \cup (Interruptible \X {"KeyboardInterrupt"})

\* The faults of the specs of a parallel batch: BenchmarkRun may raise,
\* every other call returns; the operator's interrupt lands in the
\* BenchmarkRun of one spec, which is spec 1 as the tasks are taken in any
\* order.
BatchFaults(s) ==
  IF s = 1
    THEN {<<"BenchmarkRun", "Exception">>, <<"BenchmarkRun", "KeyboardInterrupt">>}
    ELSE {<<"BenchmarkRun", "Exception">>}

FlagValues(stageSets, procs) ==
  [run_stage : stageSets,
   run_stage_retries : 0..MaxRetries,
   run_stage_time : 0..MaxStageTime,
   stop_after_benchmark_failure : BOOLEAN,
   run_processes : procs,
   publish_after_run : BOOLEAN,
   timing_measurements : BOOLEAN]

InitSpecs(ids) ==
  /\ TEARDOWN_EVENT = FALSE
  /\ pc = [s \in ids |-> "queued"]
  /\ status = [s \in ids |-> NOT_STARTED]
  /\ exc = [s \in ids |-> NoExc]
  /\ run_uri_suffixed = [s \in ids |-> FALSE]
  /\ collector = [s \in ids |-> <<>>]
  /\ published = [s \in ids |-> <<>>]
  /\ consecutive_failures = [s \in ids |-> 0]
  /\ run_number = [s \in ids |-> 0]
  /\ elapsed = [s \in ids |-> 0]
  /\ checkLog = [s \in ids |-> <<>>]
  /\ trace = [s \in ids |-> <<>>]
  /\ abortSeen = [s \in ids |-> <<>>]
  /\ aborting = [s \in ids |-> "unread"]
  /\ result = [s \in ids |-> NoResult]
  /\ batch_samples = <<>>
  /\ batch_published = <<>>
  /\ exit_status = NoExit

\* One benchmark, one process, every call may raise, every stage subset;
\* a single run without retries.
InitStages ==
  /\ FLAGS \in {f \in FlagValues((SUBSET StageSet) \ {{}}, {1}) :
                  /\ f.run_stage_retries = 0
                  /\ f.run_stage_time = 0
                  /\ f.stop_after_benchmark_failure = FALSE
                  /\ f.publish_after_run = FALSE
                  /\ f.timing_measurements => f.run_stage = StageSet}
  /\ faults = [s \in {1} |-> AllFaults]
  /\ always_call_cleanup \in [{1} -> BOOLEAN]
  /\ any_static \in [{1} -> BOOLEAN]
  /\ ("cleanup" \notin FLAGS.run_stage => ~any_static[1])
  /\ InitSpecs({1})

\* One benchmark, one process, every call may raise, the run stage with or
\* without teardown; every retry budget, run time and publishing option.
InitRunLoop ==
  /\ FLAGS \in {f \in FlagValues({{"run"}, {"run", "teardown"}}, {1}) :
                  /\ f.stop_after_benchmark_failure = FALSE
                  /\ f.timing_measurements = FALSE}
  /\ faults = [s \in {1} |-> AllFaults]
  /\ always_call_cleanup = [s \in {1} |-> FALSE]
  /\ any_static = [s \in {1} |-> FALSE]
  /\ InitSpecs({1})

\* A batch of NumSpecs benchmarks on one or two worker processes, all
\* stages requested.
InitBatch ==
  /\ FLAGS \in {f \in FlagValues({StageSet}, {1, 2}) :
                  /\ f.run_stage_retries = 0
                  /\ f.run_stage_time = 0
                  /\ f.publish_after_run = FALSE
                  /\ f.timing_measurements = FALSE}
  /\ faults = [s \in 1..NumSpecs |-> BatchFaults(s)]
  /\ always_call_cleanup = [s \in 1..NumSpecs |-> TRUE]
  /\ any_static = [s \in 1..NumSpecs |-> FALSE]
  /\ InitSpecs(1..NumSpecs)

Init == InitStages \/ InitRunLoop \/ InitBatch

\* ------------------------------------------------------- RunBenchmarkTask
\* abort.IsAborted(): the batch-wide abort signal.
IsAborted == TEARDOWN_EVENT

\* The process pool runs at most FLAGS.run_processes tasks at a time.
Running == {s \in Specs : pc[s] \notin {"queued", "returned"}}

WorkerAvailable == Cardinality(Running) < FLAGS.run_processes

\* The first requested stage after position i of STAGES; "timing" after the
\* last one (the if-chain of RunBenchmark, lines 504-517).
NextStage(i) ==
  LET later == {j \in (i + 1)..Len(STAGES) : STAGES[j] \in FLAGS.run_stage}
  IN IF later = {} THEN "timing"
     ELSE STAGES[CHOOSE j \in later : \A k \in later : j <= k]

\* A phase function of the try block finished with call result r.
AfterPhase(s, r, next) ==
  /\ trace' = [trace EXCEPT ![s] = @ \o r.tr]
  /\ exc' = [exc EXCEPT ![s] = r.exc]
  /\ pc' = [pc EXCEPT ![s] = IF r.exc = NoExc THEN next ELSE "except"]

\* Mutant: the task does not look at the abort event.
SkipTask_Never == FALSE

\* _TEARDOWN_EVENT.is_set() (line 558).
SkipTask == TEARDOWN_EVENT

\* Mutant: the status is optimistic on entry.
EntryStatus_Succeeded == SUCCEEDED

\* The status RunBenchmark assigns on entry (line 492).
EntryStatus == FAILED

\* Mutant: a skipped spec is reported as failed.
SkipResult_Failed(s) == [returned |-> TRUE, status |-> FAILED, samples |-> <<>>]

\* return spec, [] (line 559): the spec as it is, and no samples.
SkipResult(s) == [returned |-> TRUE, status |-> status[s], samples |-> <<>>]

\* A worker takes the task and evaluates the abort event (lines 558-559).
RunBenchmarkTask_Check(s) ==
  /\ pc[s] = "queued"
  /\ WorkerAvailable
  /\ IF SkipTask
       THEN /\ pc' = [pc EXCEPT ![s] = "returned"]
            /\ result' = [result EXCEPT ![s] = SkipResult(s)]
       ELSE /\ pc' = [pc EXCEPT ![s] = "task_begin"]
            /\ UNCHANGED result
  /\ UNCHANGED <<batch_samples, batch_published, exit_status,
                 FLAGS, always_call_cleanup, any_static, faults,
                 TEARDOWN_EVENT, status, exc, run_uri_suffixed, collector,
                 published, consecutive_failures, run_number, elapsed,
                 checkLog, trace, abortSeen, aborting>>

\* Mutant: the run_uri is never suffixed.
SuffixRunUri_Never == FALSE

\* Line 564.
SuffixRunUri == FLAGS.run_processes > 1

\* spec.sequence_number: the position of the spec in the batch.
sequence_number(s) == s

RECURSIVE Str(_)
\* str(n) for a natural number: its decimal digits.
Str(n) ==
  LET digit == <<"0", "1", "2", "3", "4", "5", "6", "7", "8", "9">>[(n % 10) + 1]
  IN IF n < 10 THEN <<digit>> ELSE Append(Str(n \div 10), digit)

\* spec.config.flags['run_uri'] when FLAGS.run_uri is base (line 565).
EffectiveRunUri(base, s) ==
  IF run_uri_suffixed[s] THEN base \o Str(sequence_number(s)) ELSE base

\* Lines 564-569 and 492: suffix the run_uri, create the collector, enter
\* RunBenchmark, which first sets the status to FAILED.
RunBenchmark_Enter(s) ==
  /\ pc[s] = "task_begin"
  /\ run_uri_suffixed' = [run_uri_suffixed EXCEPT ![s] = SuffixRunUri]
  /\ status' = [status EXCEPT ![s] = EntryStatus]
  /\ pc' = [pc EXCEPT ![s] = NextStage(0)]
  /\ UNCHANGED <<batch_samples, batch_published, exit_status,
                 FLAGS, always_call_cleanup, any_static, faults,
                 TEARDOWN_EVENT, exc, collector, published,
                 consecutive_failures, run_number, elapsed, checkLog,
                 trace, abortSeen, result, aborting>>

\* ------------------------------------------------------- phase functions
\* Mutant: the second checkpoint is written only when Provision returned.
DoProvisionPhaseCalls_NoFinally(s) ==
  ThenSet(ThenSet(ThenSet(Call(s, "Construct"), Call(s, "Pickle")),
                  Call(s, "benchmark_start")),
          ThenSet(Call(s, "Provision"), Call(s, "Pickle")))

\* Lines 376-390: construct, checkpoint, benchmark_start, then Provision
\* with the second checkpoint in its finally clause.
DoProvisionPhaseCalls(s) ==
  ThenSet(ThenSet(ThenSet(Call(s, "Construct"), Call(s, "Pickle")),
                  Call(s, "benchmark_start")),
          FinallySet(Call(s, "Provision"), Call(s, "Pickle")))

DoProvisionPhase(s) ==
  /\ pc[s] = "provision"
  /\ \E r \in DoProvisionPhaseCalls(s) : AfterPhase(s, r, NextStage(1))
  /\ UNCHANGED <<batch_samples, batch_published, exit_status,
                 FLAGS, always_call_cleanup, any_static, faults,
                 TEARDOWN_EVENT, status, run_uri_suffixed, collector,
                 published, consecutive_failures, run_number, elapsed,
                 checkLog, abortSeen, result, aborting>>

DoPreparePhaseCalls(s) ==
  ThenSet(ThenSet(Call(s, "Prepare"), Call(s, "BenchmarkPrepare")),
          Call(s, "StartBackgroundWorkload"))

DoPreparePhase(s) ==
  /\ pc[s] = "prepare"
  /\ \E r \in DoPreparePhaseCalls(s) : AfterPhase(s, r, NextStage(2))
  /\ UNCHANGED <<batch_samples, batch_published, exit_status,
                 FLAGS, always_call_cleanup, any_static, faults,
                 TEARDOWN_EVENT, status, run_uri_suffixed, collector,
                 published, consecutive_failures, run_number, elapsed,
                 checkLog, abortSeen, result, aborting>>

\* Mutant: the cleanup does not look at the spec.
DoCleanupPhaseCalls_Unconditional(s) ==
  ThenSet(Call(s, "StopBackgroundWorkload"), Call(s, "BenchmarkCleanup"))

\* Lines 464-467.
DoCleanupPhaseCalls(s) ==
  IF always_call_cleanup[s] \/ any_static[s]
    THEN ThenSet(Call(s, "StopBackgroundWorkload"), Call(s, "BenchmarkCleanup"))
    ELSE {Skip}

DoCleanupPhase(s) ==
  /\ pc[s] = "cleanup"
  /\ \E r \in DoCleanupPhaseCalls(s) : AfterPhase(s, r, NextStage(4))
  /\ UNCHANGED <<batch_samples, batch_published, exit_status,
                 FLAGS, always_call_cleanup, any_static, faults,
                 TEARDOWN_EVENT, status, run_uri_suffixed, collector,
                 published, consecutive_failures, run_number, elapsed,
                 checkLog, abortSeen, result, aborting>>

\* Mutant: the teardown stage deletes twice.
DoTeardownPhaseCalls_Twice(s) == ThenSet(Call(s, "Delete"), Call(s, "Delete"))

\* Line 482.
DoTeardownPhaseCalls(s) == Call(s, "Delete")

DoTeardownPhase(s) ==
  /\ pc[s] = "teardown"
  /\ \E r \in DoTeardownPhaseCalls(s) : AfterPhase(s, r, NextStage(5))
  /\ abortSeen' = [abortSeen EXCEPT ![s] = Append(@, TEARDOWN_EVENT)]
  /\ UNCHANGED <<batch_samples, batch_published, exit_status,
                 FLAGS, always_call_cleanup, any_static, faults,
                 TEARDOWN_EVENT, status, run_uri_suffixed, collector,
                 published, consecutive_failures, run_number, elapsed,
                 checkLog, result, aborting>>

\* ------------------------------------------------------------ DoRunPhase
NoTag == -1

\* The sample one successful BenchmarkRun returns: tagged with run_number
\* only when FLAGS.run_stage_time is non-zero (lines 443-445).
RunSample(s) ==
  [iteration |-> Len(RunLog(s)) + 1,
   run_number |-> IF FLAGS.run_stage_time # 0 THEN run_number[s] ELSE NoTag]

\* Lines 441-448: samples_created, AddSamples, PublishSamples.
PostRunCalls(s) ==
  ThenSet(ThenSet(Call(s, "samples_created"), Call(s, "AddSamples")),
          IF FLAGS.publish_after_run THEN Call(s, "PublishSamples") ELSE {Skip})

\* Mutant: a success leaves the counter as it is.
CountAfterSuccess_Kept(s) == consecutive_failures[s]

\* The else clause of the try statement (lines 437-438).
CountAfterSuccess(s) == 0

\* Mutant: a failure does not count.
FailuresAfter_NoCount(s, e) ==
  IF e = NoExc THEN 0 ELSE consecutive_failures[s]

\* The counter after an invocation with exception e (lines 431-438);
\* KeyboardInterrupt is not an Exception and passes the except clause.
FailuresAfter(s, e) ==
  IF e = NoExc THEN CountAfterSuccess(s)
  ELSE IF e.kind = "Exception" THEN consecutive_failures[s] + 1
  ELSE consecutive_failures[s]

\* Mutant: the budget compared with < instead of <=.
RunTryExc_OffByOne(s, e) ==
  IF e = NoExc THEN NoExc
  ELSE IF e.kind = "Exception" /\ FailuresAfter(s, e) < FLAGS.run_stage_retries
    THEN NoExc
  ELSE e

\* The exception that leaves the try statement of the loop body.
RunTryExc(s, e) ==
  IF e = NoExc THEN NoExc
  ELSE IF e.kind = "Exception" /\ FailuresAfter(s, e) <= FLAGS.run_stage_retries
    THEN NoExc
  ELSE e

\* Mutant: after_phase is sent only when no exception leaves the try.
RunTry_NoFinally(s, r, a) ==
  Then([tr |-> r.tr, exc |-> RunTryExc(s, r.exc)], a)

\* The try statement of the loop body (lines 425-440): BenchmarkRun with
\* result r, the except clause, and after_phase with result a in finally.
RunTry(s, r, a) ==
  Finally([tr |-> r.tr, exc |-> RunTryExc(s, r.exc)], a)

\* Mutant: only the retry budget ends the loop after a failure.
DeadlinePassed_Never(t) == FALSE

\* time.time() > deadline (line 450), deadline = entry time + run_stage_time.
DeadlinePassed(t) == t > FLAGS.run_stage_time

\* One iteration of the while loop (lines 421-451).
DoRunPhase(s) ==
  /\ pc[s] = "run"
  /\ Len(RunLog(s)) < MaxRuns
  /\ \E b \in Call(s, "before_phase"), r \in Call(s, "BenchmarkRun"),
        a \in Call(s, "after_phase"), p \in PostRunCalls(s),
        d \in 0..(FLAGS.run_stage_time + 1) :
       LET try == RunTry(s, r, a)
           iter == Then(b, Then(try, p))
           invoked == b.exc = NoExc
           samples == IF r.exc = NoExc THEN <<RunSample(s)>> ELSE <<>>
           added == /\ invoked /\ try.exc = NoExc
                    /\ "AddSamples" \in {p.tr[i].op : i \in 1..Len(p.tr)}
                    /\ p.exc.at # "AddSamples"
           flushed == /\ added /\ FLAGS.publish_after_run
                      /\ p.exc = NoExc
           now == Min(elapsed[s] + d, FLAGS.run_stage_time + 1)
       IN /\ trace' = [trace EXCEPT ![s] = @ \o iter.tr]
          /\ exc' = [exc EXCEPT ![s] = iter.exc]
          /\ consecutive_failures' = [consecutive_failures EXCEPT ![s] =
               IF invoked THEN FailuresAfter(s, r.exc) ELSE @]
          /\ collector' = [collector EXCEPT ![s] =
               IF added THEN @ \o samples ELSE @]
          /\ published' = [published EXCEPT ![s] =
               IF flushed THEN collector'[s] ELSE @]
          /\ IF iter.exc # NoExc
               THEN /\ pc' = [pc EXCEPT ![s] = "except"]
                    /\ UNCHANGED <<run_number, elapsed, checkLog>>
               ELSE /\ run_number' = [run_number EXCEPT ![s] = @ + 1]
                    /\ elapsed' = [elapsed EXCEPT ![s] = now]
                    /\ checkLog' = [checkLog EXCEPT ![s] =
                         Append(@, DeadlinePassed(now))]
                    /\ pc' = [pc EXCEPT ![s] =
                         IF DeadlinePassed(now) THEN NextStage(3) ELSE "run"]
  /\ UNCHANGED <<batch_samples, batch_published, exit_status,
                 FLAGS, always_call_cleanup, any_static, faults,
                 TEARDOWN_EVENT, status, run_uri_suffixed, abortSeen, result, aborting>>

\* ---------------------------------------------------------- RunBenchmark
TimingCalls(s) ==
  IF FLAGS.timing_measurements THEN Call(s, "AddTimingSamples") ELSE {Skip}

\* Lines 519-526: the timing samples, when the timing_util flags ask for them.
AddTimingSamples(s) ==
  /\ pc[s] = "timing"
  /\ \E r \in TimingCalls(s) :
       /\ trace' = [trace EXCEPT ![s] = @ \o r.tr]
       /\ exc' = [exc EXCEPT ![s] = r.exc]
       /\ collector' = [collector EXCEPT ![s] =
            IF FLAGS.timing_measurements /\ r.exc = NoExc
              THEN Append(@, [iteration |-> 0, run_number |-> NoTag]) ELSE @]
       /\ pc' = [pc EXCEPT ![s] = IF r.exc = NoExc THEN "finally" ELSE "except"]
  /\ UNCHANGED <<batch_samples, batch_published, exit_status,
                 FLAGS, always_call_cleanup, any_static, faults,
                 TEARDOWN_EVENT, status, run_uri_suffixed, published,
                 consecutive_failures, run_number, elapsed, checkLog,
                 abortSeen, result, aborting>>

\* Mutant: the except clause cleans up whether or not cleanup is requested.
ExceptCalls_NoStageTest(s) ==
  IF always_call_cleanup[s]
    THEN ThenSet(Call(s, "StopBackgroundWorkload"), Call(s, "BenchmarkCleanup"))
    ELSE {Skip}

\* The cleanup of the except clause (lines 534-535).
ExceptCalls(s) ==
  IF "cleanup" \in FLAGS.run_stage /\ always_call_cleanup[s]
    THEN DoCleanupPhaseCalls(s) ELSE {Skip}

\* Lines 528-536: the except clause; an exception of the cleanup replaces
\* the one being handled, otherwise that one is re-raised.
RunBenchmark_Except(s) ==
  /\ pc[s] = "except"
  /\ \E r \in ExceptCalls(s) :
       /\ trace' = [trace EXCEPT ![s] = @ \o r.tr]
       /\ exc' = [exc EXCEPT ![s] = IF r.exc # NoExc THEN r.exc ELSE @]
  /\ pc' = [pc EXCEPT ![s] = "finally"]
  /\ UNCHANGED <<batch_samples, batch_published, exit_status,
                 FLAGS, always_call_cleanup, any_static, faults,
                 TEARDOWN_EVENT, status, run_uri_suffixed, collector,
                 published, consecutive_failures, run_number, elapsed,
                 checkLog, abortSeen, result, aborting>>

\* Mutant: no teardown in the finally clause.
FinallyDelete_Missing(s) == {Skip}

\* The teardown of the finally clause (lines 539-540).
FinallyDelete(s) ==
  IF "teardown" \in FLAGS.run_stage /\ ~IsAborted
    THEN Call(s, "Delete") ELSE {Skip}

\* Lines 539-543.
FinallyCalls(s) ==
  ThenSet(ThenSet(FinallyDelete(s), Call(s, "benchmark_end")), Call(s, "Pickle"))

\* Mutant: the status is set to SUCCEEDED inside the finally clause.
StatusAtExit_Always(s, e) == SUCCEEDED

\* The status RunBenchmark leaves: line 544 is reached only when no
\* exception is in flight after the finally clause.
StatusAtExit(s, e) == IF e = NoExc THEN SUCCEEDED ELSE status[s]

\* Lines 537-544: the finally clause, then either the exception leaves
\* RunBenchmark or the status becomes SUCCEEDED.
RunBenchmark_Finally(s) ==
  /\ pc[s] = "finally"
  /\ \E r \in FinallyCalls(s) :
       LET e == IF r.exc # NoExc THEN r.exc ELSE exc[s]
       IN /\ trace' = [trace EXCEPT ![s] = @ \o r.tr]
          /\ exc' = [exc EXCEPT ![s] = e]
          /\ abortSeen' = [abortSeen EXCEPT ![s] =
               IF "Delete" \in {r.tr[i].op : i \in 1..Len(r.tr)}
                 THEN Append(@, TEARDOWN_EVENT) ELSE @]
          /\ aborting' = [aborting EXCEPT ![s] =
               IF IsAborted THEN "yes" ELSE "no"]
          /\ status' = [status EXCEPT ![s] = StatusAtExit(s, e)]
          /\ pc' = [pc EXCEPT ![s] =
               IF e = NoExc THEN "task_finally" ELSE "task_except"]
  /\ UNCHANGED <<batch_samples, batch_published, exit_status,
                 FLAGS, always_call_cleanup, any_static, faults,
                 TEARDOWN_EVENT, run_uri_suffixed, collector, published,
                 consecutive_failures, run_number, elapsed, checkLog,
                 result>>

\* Mutant: every failure aborts the batch.
AbortsBatch_Always(s) == TRUE

\* Line 573: does the failure of spec s abort the batch?
AbortsBatch(s) ==
  exc[s].kind = "KeyboardInterrupt" \/ FLAGS.stop_after_benchmark_failure

\* Mutant: the event is assigned, so a failure that does not abort clears it.
EventAfterExcept_Assigned(s) == AbortsBatch(s)

\* Lines 573-577: _TEARDOWN_EVENT.set() when the failure aborts the batch;
\* the event is left alone otherwise.
EventAfterExcept(s) == TEARDOWN_EVENT \/ AbortsBatch(s)

\* Lines 570-577: the except clause of RunBenchmarkTask.
RunBenchmarkTask_Except(s) ==
  /\ pc[s] = "task_except"
  /\ TEARDOWN_EVENT' = EventAfterExcept(s)
  /\ exc' = [exc EXCEPT ![s] = NoExc]
  /\ pc' = [pc EXCEPT ![s] = "task_finally"]
  /\ UNCHANGED <<batch_samples, batch_published, exit_status,
                 FLAGS, always_call_cleanup, any_static, faults, status,
                 run_uri_suffixed, collector, published, consecutive_failures,
                 run_number, elapsed, checkLog, trace, abortSeen,
                 result, aborting>>

\* Mutant: only a benchmark that succeeded returns its samples.
ReturnedSamples_OnSuccess(s) ==
  IF status[s] = SUCCEEDED THEN collector[s] ELSE <<>>

\* collector.samples (line 582).
ReturnedSamples(s) == collector[s]

\* Lines 578-582: return spec, collector.samples.
RunBenchmarkTask_Return(s) ==
  /\ pc[s] = "task_finally"
  /\ result' = [result EXCEPT ![s] =
       [returned |-> TRUE, status |-> status[s], samples |-> ReturnedSamples(s)]]
  /\ pc' = [pc EXCEPT ![s] = "returned"]
  /\ UNCHANGED <<batch_samples, batch_published, exit_status,
                 FLAGS, always_call_cleanup, any_static, faults,
                 TEARDOWN_EVENT, status, exc, run_uri_suffixed, collector,
                 published, consecutive_failures, run_number, elapsed,
                 checkLog, trace, abortSeen, aborting>>

\* --------------------------------------------------------- RunBenchmarks
RECURSIVE SampleLists(_)
\* The sample lists of the first n returned tuples, concatenated in task
\* order (lines 660-662).
SampleLists(n) ==
  IF n = 0 THEN <<>> ELSE SampleLists(n - 1) \o result[n].samples

\* Mutant: one succeeded benchmark is enough.
all_benchmarks_succeeded_Any == \E s \in Specs : result[s].status = SUCCEEDED

\* Lines 683-684, over the specs RunParallelProcesses returned.
all_benchmarks_succeeded == \A s \in Specs : result[s].status = SUCCEEDED

\* Lines 658-685: RunParallelProcesses has returned every task's tuple; the
\* sample lists are collected and the exit status is computed.
RunBenchmarks_Return ==
  /\ exit_status = NoExit
  /\ \A s \in Specs : pc[s] = "returned"
  /\ batch_samples' = SampleLists(Cardinality(Specs))
  /\ batch_published' = IF batch_samples' # <<>> THEN batch_samples' ELSE <<>>
  /\ exit_status' = IF all_benchmarks_succeeded THEN 0 ELSE 1
  /\ UNCHANGED <<FLAGS, always_call_cleanup, any_static, faults,
                 TEARDOWN_EVENT, pc, status, exc, run_uri_suffixed, collector,
                 published, consecutive_failures, run_number, elapsed,
                 checkLog, trace, abortSeen, aborting, result>>

\* ------------------------------------------------------------------ Spec
Next ==
  \/ \E s \in Specs : RunBenchmarkTask_Check(s)
  \/ \E s \in Specs : RunBenchmark_Enter(s)
  \/ \E s \in Specs : DoProvisionPhase(s)
  \/ \E s \in Specs : DoPreparePhase(s)
  \/ \E s \in Specs : DoRunPhase(s)
  \/ \E s \in Specs : DoCleanupPhase(s)
  \/ \E s \in Specs : DoTeardownPhase(s)
  \/ \E s \in Specs : AddTimingSamples(s)
  \/ \E s \in Specs : RunBenchmark_Except(s)
  \/ \E s \in Specs : RunBenchmark_Finally(s)
  \/ \E s \in Specs : RunBenchmarkTask_Except(s)
  \/ \E s \in Specs : RunBenchmarkTask_Return(s)
  \/ RunBenchmarks_Return

Spec == Init /\ [][Next]_vars

TypeOK ==
  /\ TEARDOWN_EVENT \in BOOLEAN
  /\ exit_status \in {NoExit, 0, 1}
  /\ \A s \in Specs :
       /\ status[s] \in {NOT_STARTED, FAILED, SUCCEEDED}
       /\ Len(RunLog(s)) <= MaxRuns
       /\ consecutive_failures[s] <= FLAGS.run_stage_retries + 1

\* ============================================================ properties
R == FLAGS.run_stage_retries

\* RunBenchmark was entered for spec s and has been left.
RunBenchmarkExited(s) ==
  /\ pc[s] \in {"task_except", "task_finally", "returned"}
  /\ aborting[s] # "unread"

Max(S) == CHOOSE x \in S : \A y \in S : y <= x

\* The number of consecutive failed invocations ending with invocation i.
Streak(log, i) ==
  IF log[i].out # "Exception" THEN 0
  ELSE i - Max({0} \cup {j \in 1..i : log[j].out # "Exception"})

\* A call other than BenchmarkRun raised.
OtherRaised(s) ==
  \E i \in DOMAIN trace[s] : trace[s][i].out # "none" /\ ~IsRun(trace[s][i])

\* A BenchmarkRun invocation raised something the retry loop does not absorb.
RunFatal(s) ==
  \E i \in DOMAIN RunLog(s) :
    \/ RunLog(s)[i].out = "KeyboardInterrupt"
    \/ Streak(RunLog(s), i) > R

\* Run raised on its first R invocations and returned on the later ones.
FailsFirstR(s) ==
  /\ Len(RunLog(s)) >= 1
  /\ \A i \in DOMAIN RunLog(s) :
       RunLog(s)[i].out = IF i <= R THEN "Exception" ELSE "none"

\* Run raised on every invocation.
AlwaysRaised(s) ==
  /\ Len(RunLog(s)) >= 1
  /\ \A i \in DOMAIN RunLog(s) : RunLog(s)[i].out = "Exception"

\* The deadline checks so far: all found the deadline not passed, except
\* the last one.
EndedByDeadline(s) ==
  /\ Len(checkLog[s]) >= 1
  /\ \A i \in DOMAIN checkLog[s] : checkLog[s][i] = (i = Len(checkLog[s]))

C1_Case(s) ==
  /\ RunBenchmarkExited(s)
  /\ "run" \in FLAGS.run_stage
  /\ FailsFirstR(s)
  /\ ~OtherRaised(s)

\* C1 as stated: a Run that fails its first R invocations and then succeeds
\* leaves the spec SUCCEEDED after exactly R+1 invocations.
C1_ExactlyRPlus1 ==
  \A s \in Specs :
    C1_Case(s) => status[s] = SUCCEEDED /\ Len(RunLog(s)) = R + 1

\* C1 amended: such a Run leaves the spec SUCCEEDED when no other call
\* raises, and BenchmarkRun is invoked once per deadline check, up to and
\* including the first check that finds the deadline passed; a failure
\* within the budget is retried only while the deadline has not passed.
C1_SucceedsUntilDeadline ==
  \A s \in Specs :
    C1_Case(s) =>
      /\ status[s] = SUCCEEDED
      /\ EndedByDeadline(s)
      /\ Len(RunLog(s)) = Len(checkLog[s])

\* Single-shot mode, the clock did not move during the failing first
\* iteration: the retry happened and Run was invoked R+1 = 2 times.
C1_Witness ==
  \E s \in Specs :
    /\ C1_Case(s) /\ R = 1 /\ FLAGS.run_stage_time = 0
    /\ Len(RunLog(s)) = 2 /\ status[s] = SUCCEEDED

\* C2 as stated: a Run that raises on every invocation leaves the spec
\* FAILED, and Delete is still invoked when teardown is requested.
C2_AlwaysFailingRunFails ==
  \A s \in Specs :
    RunBenchmarkExited(s) /\ AlwaysRaised(s) =>
      /\ status[s] = FAILED
      /\ "teardown" \in FLAGS.run_stage => "Delete" \in Calls(s)

\* C2 amended: once R+1 consecutive invocations have raised, the spec ends
\* FAILED whatever the remaining deadline, and Delete is still invoked when
\* teardown is requested and the abort signal is not set in the finally
\* clause.
C2_BudgetExceededFails ==
  \A s \in Specs :
    RunBenchmarkExited(s) /\ AlwaysRaised(s) /\ Len(RunLog(s)) = R + 1 =>
      /\ status[s] = FAILED
      /\ ("teardown" \in FLAGS.run_stage /\ aborting[s] = "no")
           => "Delete" \in Calls(s)

\* Two failures with budget 1 and the deadline still ahead (run_stage_time 1,
\* no time elapsed at the first check): FAILED, and Delete was invoked.
C2_Witness ==
  \E s \in Specs :
    /\ RunBenchmarkExited(s) /\ AlwaysRaised(s)
    /\ R = 1 /\ Len(RunLog(s)) = 2
    /\ FLAGS.run_stage_time = 1 /\ checkLog[s] = <<FALSE>>
    /\ status[s] = FAILED /\ "Delete" \in Calls(s)

\* C3: a stage's calls are made only if the stage is in FLAGS.run_stage,
\* the cleanup of the except clause and the Delete of the finally clause
\* included.
C3_OnlyRequestedStages ==
  \A s \in Specs : \A i \in DOMAIN trace[s] :
    StageOf(trace[s][i].op) # "none"
      => StageOf(trace[s][i].op) \in FLAGS.run_stage

\* A proper subset of the stages, an error in prepare, the cleanup of the
\* except clause and the Delete of the finally clause both made.
C3_Witness ==
  \E s \in Specs :
    /\ FLAGS.run_stage = {"prepare", "cleanup", "teardown"}
    /\ RunBenchmarkExited(s)
    /\ \E i \in DOMAIN trace[s] :
         trace[s][i] = [op |-> "Prepare", out |-> "Exception"]
    /\ {"BenchmarkCleanup", "Delete"} \subseteq Calls(s)

\* C4 as stated: the stage calls of one RunBenchmark execution are made in
\* the order provision, prepare, run, cleanup, teardown on every path.
C4_StageOrder ==
  \A s \in Specs : \A i, j \in DOMAIN trace[s] :
    (/\ i < j
     /\ StageOf(trace[s][i].op) # "none"
     /\ StageOf(trace[s][j].op) # "none")
      => StageRank(StageOf(trace[s][i].op)) <= StageRank(StageOf(trace[s][j].op))

\* C5 as stated: no RunBenchmark call starts while the abort event is set.
C5_NoStartAfterAbort ==
  [][\A s \in Specs :
       (pc[s] = "task_begin" /\ pc'[s] # "task_begin") => ~TEARDOWN_EVENT]_vars

\* C5 amended: a task that evaluates the abort event after it was set does
\* not start its pipeline and returns the untouched spec with no samples (a
\* task that passed the check before the set still starts); a pipeline that
\* has started is left only through the return of RunBenchmarkTask, which
\* returns the spec with the samples of its collector.
C5_AbortMonotone ==
  [][\A s \in Specs :
       /\ (pc[s] = "queued" /\ TEARDOWN_EVENT /\ pc'[s] # "queued") =>
            /\ pc'[s] = "returned"
            /\ result'[s] = [returned |-> TRUE, status |-> status[s],
                             samples |-> <<>>]
            /\ trace'[s] = <<>> /\ status'[s] = status[s]
       /\ (pc[s] \notin {"queued", "returned"} /\ pc'[s] = "returned") =>
            /\ pc[s] = "task_finally"
            /\ result'[s] = [returned |-> TRUE, status |-> status[s],
                             samples |-> collector[s]]]_vars

\* One spec failed and set the abort event; another was skipped.
C5_Witness ==
  \E s, t \in Specs :
    /\ TEARDOWN_EVENT
    /\ result[s] = [returned |-> TRUE, status |-> NOT_STARTED, samples |-> <<>>]
    /\ result[t].returned /\ result[t].status = FAILED

\* C6 as stated: spec.Delete is never invoked while the abort event is set.
C6_NoDeleteUnderAbort ==
  \A s \in Specs : \A i \in DOMAIN abortSeen[s] : abortSeen[s][i] = FALSE

EndNotificationRaised(s) ==
  \E i \in DOMAIN trace[s] :
    trace[s][i].op = "benchmark_end" /\ trace[s][i].out # "none"

\* C8 as stated: on every exit path of RunBenchmark (whatever a stage, the
\* cleanup of the except clause or the teardown of the finally clause
\* raised) the last two calls are the benchmark_end notification and the
\* final spec.Pickle().
C8_FinalCheckpointAlways ==
  \A s \in Specs :
    (RunBenchmarkExited(s) /\ ~EndNotificationRaised(s)) =>
      /\ Len(trace[s]) >= 2
      /\ trace[s][Len(trace[s]) - 1].op = "benchmark_end"
      /\ trace[s][Len(trace[s])].op = "Pickle"

\* C9 as stated: once spec.status is FAILED it never changes.
C9_FailedIsFinal ==
  [][\A s \in Specs : status[s] = FAILED => status'[s] = FAILED]_vars

\* C9 amended: spec.status leaves its initial value only for FAILED (on
\* entry to RunBenchmark), leaves FAILED only for SUCCEEDED (on normal
\* return), and SUCCEEDED is never followed by another value.
C9_StatusForward ==
  [][\A s \in Specs :
       /\ status[s] = NOT_STARTED => status'[s] \in {NOT_STARTED, FAILED}
       /\ status[s] = FAILED => status'[s] \in {FAILED, SUCCEEDED}
       /\ status[s] = SUCCEEDED => status'[s] = SUCCEEDED]_vars

\* A spec went through FAILED and was returned SUCCEEDED.
C9_Witness ==
  \E s \in Specs : pc[s] = "returned" /\ status[s] = SUCCEEDED

\* Every requested stage made its call, and the pipeline ended with the
\* benchmark_end notification and the final checkpoint.
PipelineCompleted(s) ==
  /\ "provision" \in FLAGS.run_stage => "Provision" \in Calls(s)
  /\ "prepare" \in FLAGS.run_stage => "StartBackgroundWorkload" \in Calls(s)
  /\ "run" \in FLAGS.run_stage => "BenchmarkRun" \in Calls(s)
  /\ ("cleanup" \in FLAGS.run_stage /\ (always_call_cleanup[s] \/ any_static[s]))
       => "BenchmarkCleanup" \in Calls(s)
  /\ "teardown" \in FLAGS.run_stage => "Delete" \in Calls(s)
  /\ Len(trace[s]) >= 2
  /\ trace[s][Len(trace[s]) - 1].op = "benchmark_end"
  /\ trace[s][Len(trace[s])].op = "Pickle"

\* C10: the status RunBenchmarkTask returns for a started spec is SUCCEEDED
\* exactly when no call raised an exception that the run-stage retry loop
\* did not absorb, and then the whole pipeline completed; otherwise it is
\* FAILED.
C10_SucceededOnlyIfClean ==
  \A s \in Specs :
    (pc[s] = "returned" /\ aborting[s] # "unread") =>
      /\ result[s].status \in {SUCCEEDED, FAILED}
      /\ result[s].status = SUCCEEDED <=> ~(OtherRaised(s) \/ RunFatal(s))
      /\ result[s].status = SUCCEEDED => PipelineCompleted(s)

\* Everything succeeded except the final checkpoint: the spec is FAILED.
C10_Witness ==
  \E s \in Specs :
    /\ pc[s] = "returned" /\ result[s].status = FAILED
    /\ FLAGS.run_stage = StageSet
    /\ trace[s][Len(trace[s])] = [op |-> "Pickle", out |-> "Exception"]
    /\ \A i \in 1..(Len(trace[s]) - 1) : trace[s][i].out = "none"

\* No call made so far was interrupted by the operator.
NoInterrupt ==
  \A s \in Specs : \A i \in DOMAIN trace[s] :
    trace[s][i].out # "KeyboardInterrupt"

\* What the calls made for spec s alone say its status is.
OwnOutcome(s) == IF OtherRaised(s) \/ RunFatal(s) THEN FAILED ELSE SUCCEEDED

\* A run loop stopped by the exploration bound MaxRuns.
RunCapped == \E s \in Specs : pc[s] = "run" /\ Len(RunLog(s)) = MaxRuns

\* C11: with stop_after_benchmark_failure off and no keyboard interrupt, the
\* abort event stays unset, every spec that has returned was attempted and
\* is returned with its own status and the samples of its collector, and
\* the batch never stops before every spec has returned and RunBenchmarks
\* has its exit status.
C11_FailureIsolation ==
  (~FLAGS.stop_after_benchmark_failure /\ NoInterrupt) =>
    /\ ~TEARDOWN_EVENT
    /\ \A s \in Specs :
         pc[s] = "returned" =>
           /\ aborting[s] # "unread"
           /\ result[s] = [returned |-> TRUE, status |-> OwnOutcome(s),
                           samples |-> collector[s]]
    /\ exit_status = NoExit => (RunCapped \/ ENABLED Next)

\* Two workers, the Run of one spec raised, the other spec succeeded; both
\* were returned and the exit status is 1.
C11_Witness ==
  /\ ~FLAGS.stop_after_benchmark_failure /\ NoInterrupt
  /\ FLAGS.run_processes = 2 /\ exit_status = 1 /\ ~TEARDOWN_EVENT
  /\ \E s, t \in Specs :
       /\ result[s].status = FAILED /\ RunLog(s) # <<>>
       /\ RunLog(s)[1].out = "Exception"
       /\ result[t].status = SUCCEEDED /\ Len(result[t].samples) = 1

\* C12: the exit status of RunBenchmarks is 0 exactly when every spec of
\* the batch has status SUCCEEDED and 1 otherwise; a failed spec or a spec
\* skipped under abort makes it 1.
C12_ExitStatus ==
  exit_status # NoExit =>
    /\ exit_status \in {0, 1}
    /\ exit_status = 0 <=> \A s \in Specs : status[s] = SUCCEEDED
    /\ (\E s \in Specs : status[s] = FAILED \/ aborting[s] = "unread")
         => exit_status = 1

\* A batch with a spec skipped under abort returned exit status 1.
C12_Witness ==
  /\ exit_status = 1
  /\ \E s \in Specs : aborting[s] = "unread" /\ status[s] = NOT_STARTED

\* C13: a task that finds the abort event set returns at once with no
\* samples and the spec as it was: status, run_uri and collector untouched
\* and no call made; nothing is done for the spec afterwards either.
C13_SkippedUntouched ==
  [][\A s \in Specs :
       /\ (pc[s] = "queued" /\ TEARDOWN_EVENT /\ pc'[s] # "queued") =>
            /\ pc'[s] = "returned"
            /\ result'[s] = [returned |-> TRUE, status |-> status[s],
                             samples |-> <<>>]
            /\ status'[s] = status[s] /\ status'[s] # FAILED
            /\ run_uri_suffixed'[s] = run_uri_suffixed[s]
            /\ trace'[s] = trace[s] /\ collector'[s] = collector[s]
       /\ (pc[s] = "returned" /\ aborting[s] = "unread") =>
            /\ status'[s] = NOT_STARTED /\ ~run_uri_suffixed'[s]
            /\ trace'[s] = <<>> /\ result'[s] = result[s]]_vars

\* With two workers (where a started spec gets its run_uri suffixed) a spec
\* was skipped under abort: not started, not suffixed, no call, no samples.
C13_Witness ==
  \E s \in Specs :
    /\ FLAGS.run_processes = 2 /\ TEARDOWN_EVENT
    /\ pc[s] = "returned" /\ aborting[s] = "unread"
    /\ status[s] = NOT_STARTED /\ ~run_uri_suffixed[s]
    /\ trace[s] = <<>> /\ result[s].samples = <<>>

\* C14: the abort event is never cleared; it becomes set only in the except
\* clause of a task whose RunBenchmark raised, and only when the exception
\* is a KeyboardInterrupt or stop_after_benchmark_failure is on; a
\* KeyboardInterrupt sets it whatever stop_after_benchmark_failure says.
C14_AbortSetOnce ==
  [][/\ TEARDOWN_EVENT => TEARDOWN_EVENT'
     /\ (~TEARDOWN_EVENT /\ TEARDOWN_EVENT') =>
          \E s \in Specs :
            /\ pc[s] = "task_except" /\ pc'[s] = "task_finally"
            /\ exc[s] # NoExc
            /\ \/ exc[s].kind = "KeyboardInterrupt"
               \/ FLAGS.stop_after_benchmark_failure
     /\ \A s \in Specs :
          (/\ pc[s] = "task_except" /\ pc'[s] = "task_finally"
           /\ exc[s].kind = "KeyboardInterrupt") => TEARDOWN_EVENT']_vars

\* stop_after_benchmark_failure off, a BenchmarkRun was interrupted, and
\* the task has set the abort event.
C14_Witness ==
  \E s \in Specs :
    /\ ~FLAGS.stop_after_benchmark_failure /\ TEARDOWN_EVENT
    /\ pc[s] \in {"task_finally", "returned"}
    /\ \E i \in DOMAIN trace[s] :
         trace[s][i] = [op |-> "BenchmarkRun", out |-> "KeyboardInterrupt"]

\* C15 as stated: with run_stage_time = 0 BenchmarkRun is invoked at most
\* once per DoRunPhase, whatever the invocation's outcome and whatever the
\* clock reads, and no sample carries a run_number.
C15_SingleShotOnce ==
  \A s \in Specs :
    FLAGS.run_stage_time = 0 =>
      /\ Len(RunLog(s)) <= 1
      /\ \A i \in DOMAIN collector[s] : collector[s][i].run_number = NoTag

\* The iteration just made for spec s: the calls it added to the trace.
Added(s) == SubSeq(trace'[s], Len(trace[s]) + 1, Len(trace'[s]))

\* C16 as stated: with run_stage_time = D > 0 and a Run that succeeds, the
\* loop is left at the first iteration boundary where the elapsed time is
\* at least D, and continues at a boundary where it is less; the sample of
\* iteration k carries run_number k-1.
C16_StopsAtDeadline ==
  [][\A s \in Specs :
       (/\ pc[s] = "run" /\ trace'[s] # trace[s]
        /\ FLAGS.run_stage_time > 0
        /\ \A i \in DOMAIN Added(s) : Added(s)[i].out = "none") =>
         /\ elapsed'[s] >= FLAGS.run_stage_time => pc'[s] # "run"
         /\ elapsed'[s] < FLAGS.run_stage_time => pc'[s] = "run"
         /\ \A i \in DOMAIN collector'[s] :
              collector'[s][i].run_number = collector'[s][i].iteration - 1]_vars

\* C17: when BenchmarkRun raises with the failure count still within
\* run_stage_retries (and no other call of the iteration raises), the
\* iteration ends without an exception; if the clock is then past the
\* deadline DoRunPhase is left for the next stage, and BenchmarkRun is
\* never invoked once DoRunPhase was left.
C17_NoRetryPastDeadline ==
  [][\A s \in Specs :
       /\ (/\ pc[s] = "run" /\ trace'[s] # trace[s]
           /\ consecutive_failures[s] + 1 <= FLAGS.run_stage_retries
           /\ \A i \in DOMAIN Added(s) :
                Added(s)[i].out = IF IsRun(Added(s)[i]) THEN "Exception"
                                  ELSE "none") =>
            /\ exc'[s] = NoExc
            /\ elapsed'[s] > FLAGS.run_stage_time =>
                 pc'[s] = NextStage(3) /\ pc'[s] # "run"
       /\ pc[s] # "run" => SelectSeq(trace'[s], IsRun) = RunLog(s)]_vars

\* Budget 1, run_stage_time 1: the only BenchmarkRun invocation raised, the
\* deadline had passed, and the spec ended SUCCEEDED without a retry.
C17_Witness ==
  \E s \in Specs :
    /\ FLAGS.run_stage_retries = 1 /\ FLAGS.run_stage_time = 1
    /\ RunLog(s) = <<[op |-> "BenchmarkRun", out |-> "Exception"]>>
    /\ checkLog[s] = <<TRUE>>
    /\ pc[s] = "returned" /\ status[s] = SUCCEEDED

\* C18 as stated: the exception that leaves the except clause of
\* RunBenchmark is the one that entered it, also when the cleanup run there
\* raised.
C18_OriginalErrorKept ==
  [][\A s \in Specs :
       (pc[s] = "except" /\ pc'[s] = "finally") => exc'[s] = exc[s]]_vars

\* C19: spec.Provision is invoked at most once, right after a checkpoint
\* and the benchmark_start notification, and is followed by a second
\* checkpoint whether it returned or raised; when it raised, no later stage
\* of the try block is entered.
C19_ProvisionCheckpoints ==
  \A s \in Specs : \A i \in DOMAIN trace[s] :
    trace[s][i].op = "Provision" =>
      /\ i >= 3
      /\ trace[s][i - 2] = [op |-> "Pickle", out |-> "none"]
      /\ trace[s][i - 1] = [op |-> "benchmark_start", out |-> "none"]
      /\ Len(trace[s]) > i /\ trace[s][i + 1].op = "Pickle"
      /\ \A j \in DOMAIN trace[s] : trace[s][j].op = "Provision" => j = i
      /\ trace[s][i].out # "none" =>
           /\ pc[s] \in {"except", "finally", "task_except", "task_finally",
                         "returned"}
           /\ Calls(s) \cap {"Prepare", "BenchmarkRun"} = {}

\* Provision raised, the second checkpoint was written, and the task
\* returned the spec FAILED.
C19_Witness ==
  \E s \in Specs : \E i \in DOMAIN trace[s] :
    /\ trace[s][i] = [op |-> "Provision", out |-> "Exception"]
    /\ Len(trace[s]) > i
    /\ trace[s][i + 1] = [op |-> "Pickle", out |-> "none"]
    /\ pc[s] = "returned" /\ result[s].status = FAILED

\* C20: BenchmarkCleanup is invoked only when cleanup is a requested stage
\* and the spec has always_call_cleanup or a static VM, and each invocation
\* comes right after a StopBackgroundWorkload that returned.
C20_CleanupOnlyWhenDue ==
  \A s \in Specs : \A i \in DOMAIN trace[s] :
    trace[s][i].op = "BenchmarkCleanup" =>
      /\ "cleanup" \in FLAGS.run_stage
      /\ always_call_cleanup[s] \/ any_static[s]
      /\ i > 1
      /\ trace[s][i - 1] = [op |-> "StopBackgroundWorkload", out |-> "none"]

\* A spec with a static VM and without always_call_cleanup was cleaned up.
C20_Witness ==
  \E s \in Specs :
    /\ any_static[s] /\ ~always_call_cleanup[s]
    /\ "BenchmarkCleanup" \in Calls(s)
    /\ pc[s] = "returned"

\* Values of FLAGS.run_uri (alphanumeric, lines 315-318), one of them ending
\* in a digit; no modelled code assigns the flag.
RunUris == {<<"r">>, <<"r", "1">>}

\* RunBenchmark was entered for spec s.
Started(s) == status[s] # NOT_STARTED

\* C21: whatever FLAGS.run_uri is, with run_processes > 1 the run_uri of
\* every started spec is FLAGS.run_uri followed by the decimal digits of its
\* sequence number, so two started specs have different run_uris that
\* share the prefix FLAGS.run_uri; with run_processes = 1 the run_uri of a
\* started spec is FLAGS.run_uri itself.
C21_DistinctRunUris ==
  \A base \in RunUris :
    LET uri == [s \in Specs |-> EffectiveRunUri(base, s)]
    IN \A s \in {s \in Specs : Started(s)} :
         /\ uri[s] = IF FLAGS.run_processes > 1
                       THEN base \o Str(sequence_number(s)) ELSE base
         /\ \A t \in {t \in Specs : Started(t)} :
              (sequence_number(t) # sequence_number(s)
               /\ FLAGS.run_processes > 1) =>
                /\ uri[s] # uri[t]
                /\ SubSeq(uri[s], 1, Len(base)) = base
                /\ SubSeq(uri[t], 1, Len(base)) = base

\* Two workers, two specs inside RunBenchmark at the same time, both with
\* a suffixed run_uri.
C21_Witness ==
  \E s, t \in Specs :
    /\ s # t /\ FLAGS.run_processes = 2
    /\ pc[s] = "run" /\ pc[t] = "run"
    /\ run_uri_suffixed[s] /\ run_uri_suffixed[t]
    /\ EffectiveRunUri(<<"r", "1">>, s) = <<"r", "1", "1">>
    /\ EffectiveRunUri(<<"r", "1">>, t) = <<"r", "1", "2">>

\* The BenchmarkRun invocations after the step being taken.
RunLogAfter(s) == SelectSeq(trace'[s], IsRun)

\* C22: an iteration whose calls all return resets the failure counter and
\* does not raise; an iteration whose BenchmarkRun raises an Exception
\* (nothing else raising) leaves DoRunPhase with that exception exactly when
\* it is the (run_stage_retries + 1)-th failure in a row, whatever happened
\* before the last success.
C22_ResetOnSuccess ==
  [][\A s \in Specs :
       (pc[s] = "run" /\ trace'[s] # trace[s]) =>
         /\ (\A i \in DOMAIN Added(s) : Added(s)[i].out = "none") =>
              consecutive_failures'[s] = 0 /\ pc'[s] # "except"
         /\ (\A i \in DOMAIN Added(s) :
               Added(s)[i].out = IF IsRun(Added(s)[i]) THEN "Exception"
                                 ELSE "none") =>
              /\ Streak(RunLogAfter(s), Len(RunLogAfter(s))) <= R + 1
              /\ consecutive_failures'[s] =
                   Streak(RunLogAfter(s), Len(RunLogAfter(s)))
              /\ pc'[s] = "except" <=>
                   Streak(RunLogAfter(s), Len(RunLogAfter(s))) = R + 1
              /\ pc'[s] = "except" =>
                   exc'[s] = [kind |-> "Exception", at |-> "BenchmarkRun"]]_vars

\* Budget 1: failure, success, failure, and the spec ended SUCCEEDED.
C22_Witness ==
  \E s \in Specs :
    /\ R = 1 /\ Len(RunLog(s)) = 3
    /\ RunLog(s)[1].out = "Exception" /\ RunLog(s)[2].out = "none"
    /\ RunLog(s)[3].out = "Exception"
    /\ pc[s] = "returned" /\ status[s] = SUCCEEDED

\* q starts with p.
IsPrefix(p, q) == Len(p) <= Len(q) /\ SubSeq(q, 1, Len(p)) = p

\* How often x occurs in sequence q.
Occurrences(x, q) == Cardinality({i \in DOMAIN q : q[i] = x})

RECURSIVE Collected(_, _)
\* How often x occurs in the collectors of specs 1..n.
Collected(x, n) ==
  IF n = 0 THEN 0 ELSE Collected(x, n - 1) + Occurrences(x, collector[n])

\* C23: a collector never loses a sample, also when its pipeline fails or
\* its samples were published during the run; the task returns the whole
\* collector; RunBenchmarks collects every sample of every returned list,
\* as often as it was collected, and publishes them all.
C23_SamplesKept ==
  [][/\ \A s \in Specs :
          /\ IsPrefix(collector[s], collector'[s])
          /\ IsPrefix(published'[s], collector'[s])
          /\ (pc[s] = "task_finally" /\ pc'[s] = "returned") =>
               result'[s].samples = collector[s]
          /\ (pc[s] = "returned" /\ Started(s)) =>
               result'[s].samples = collector'[s]
     /\ (exit_status = NoExit /\ exit_status' # NoExit) =>
          /\ \A s \in Specs : \A i \in DOMAIN collector[s] :
               Occurrences(collector[s][i], batch_samples') =
                 Collected(collector[s][i], Cardinality(Specs))
          /\ batch_published' = batch_samples']_vars

\* publish_after_run: a sample was collected and published, a later
\* iteration failed the spec, and the sample came back with the FAILED spec
\* and was published again by RunBenchmarks.
C23_Witness ==
  \E s \in Specs :
    /\ FLAGS.publish_after_run /\ exit_status = 1
    /\ result[s].status = FAILED
    /\ Len(result[s].samples) = 1 /\ published[s] = result[s].samples
    /\ batch_published = result[s].samples

\* The number of spec.Delete invocations made for spec s.
Deletes(s) == Cardinality({i \in DOMAIN trace[s] : trace[s][i].op = "Delete"})

\* C24 as stated: spec.Delete is invoked at most once per RunBenchmark.
C24_DeleteAtMostOnce == \A s \in Specs : Deletes(s) <= 1

\* C24 amended: spec.Delete is invoked at most twice per RunBenchmark, once
\* by the teardown stage and once by the finally clause; a pipeline that
\* completed with teardown requested has invoked it twice, or once when the
\* abort signal was set in the finally clause.
C24_DeleteAtMostTwice ==
  \A s \in Specs :
    LET n == Deletes(s)
    IN /\ n <= 2
       /\ n = Len(abortSeen[s])
       /\ (n = 2 /\ RunBenchmarkExited(s)) => aborting[s] = "no"
       /\ (status[s] = SUCCEEDED /\ "teardown" \in FLAGS.run_stage) =>
            n = IF aborting[s] = "no" THEN 2 ELSE 1

\* All stages requested, every call returned, Delete was invoked twice.
C24_Witness ==
  \E s \in Specs :
    /\ FLAGS.run_stage = StageSet /\ status[s] = SUCCEEDED
    /\ pc[s] = "returned" /\ Deletes(s) = 2
    /\ \A i \in DOMAIN trace[s] : trace[s][i].out = "none"

\* The number of BenchmarkRun invocations among the first i calls.
RunIndex(s, i) ==
  Cardinality({j \in 1..i : IsRun(trace[s][j])})

\* C25: every before_phase notification that was delivered is followed by
\* BenchmarkRun and then by exactly one after_phase, also when BenchmarkRun
\* raised and the exception leaves DoRunPhase; samples_created follows
\* exactly when no exception leaves the iteration's try statement, and is
\* sent nowhere else.
C25_PhaseNotificationsPaired ==
  \A s \in Specs :
    LET tr == trace[s]
    IN \A i \in DOMAIN tr :
         /\ tr[i] = [op |-> "before_phase", out |-> "none"] =>
              /\ Len(tr) >= i + 2
              /\ IsRun(tr[i + 1])
              /\ tr[i + 2].op = "after_phase"
              /\ (Len(tr) >= i + 3 /\ tr[i + 3].op = "samples_created")
                   <=> /\ tr[i + 2].out = "none"
                       /\ \/ tr[i + 1].out = "none"
                          \/ /\ tr[i + 1].out = "Exception"
                             /\ Streak(RunLog(s), RunIndex(s, i + 1)) <= R
         /\ tr[i].op = "after_phase" =>
              i > 2 /\ tr[i - 2] = [op |-> "before_phase", out |-> "none"]
         /\ tr[i].op = "samples_created" =>
              i > 3 /\ tr[i - 3] = [op |-> "before_phase", out |-> "none"]

\* The failure that exceeded the budget was followed by after_phase and not
\* by samples_created.
C25_Witness ==
  \E s \in Specs : \E i \in DOMAIN trace[s] :
    /\ R = 1 /\ Len(RunLog(s)) = 2 /\ pc[s] = "returned"
    /\ trace[s][i] = [op |-> "BenchmarkRun", out |-> "Exception"]
    /\ RunIndex(s, i) = 2
    /\ Len(trace[s]) > i + 1
    /\ trace[s][i + 1] = [op |-> "after_phase", out |-> "none"]
    /\ trace[s][i + 2].op # "samples_created"

====
